---- MODULE Spec2Model ----
(***************************************************************************)
(* Model of the HeartMuLa job lifecycle: the Express gateway               *)
(* (src/backend/server.js) and the React poller embedded in                *)
(* src/scripts/local-stack.sh.                                             *)
(*                                                                         *)
(* JavaScript strings that the code inspects character by character        *)
(* (trim, parseInt, atob) are sequences of one-character strings; strings  *)
(* the code only copies are TLA+ strings.  JSON values are tagged records. *)
(***************************************************************************)
EXTENDS Integers, Sequences, FiniteSets, Bags, TLC

\* ------------------------------------------------------------------------
\* Bounds of the model
\* ------------------------------------------------------------------------
\* number of jobs the provider keeps at one time
MaxJobs == 2
\* number of object URLs from which on the timers issue no status fetch
MaxURLs == 1
\* number of fetches of the page awaiting their answer at one time
MaxInFlight == 2
\* number of interval timers live at one time
MaxTimers == 2

\* ------------------------------------------------------------------------
\* JSON values
\* ------------------------------------------------------------------------
Undef == [t |-> "undefined"]
Str(s) == [t |-> "string", s |-> s]
Num(n) == [t |-> "number", n |-> n]
NaN == [t |-> "NaN"]

\* JavaScript truthiness of a JSON value
Truthy(v) ==
  CASE v.t = "undefined" -> FALSE
    [] v.t = "NaN" -> FALSE
    [] v.t = "string" -> v.s # <<>>
    [] v.t = "number" -> v.n # 0
    [] OTHER -> TRUE

IsSpace(c) == c \in {" ", "\n", "\t"}

RECURSIVE TrimStart(_)
TrimStart(s) ==
  IF s = <<>> THEN <<>>
  ELSE IF IsSpace(Head(s)) THEN TrimStart(Tail(s)) ELSE s

RECURSIVE TrimEnd(_)
TrimEnd(s) ==
  IF s = <<>> THEN <<>>
  ELSE IF IsSpace(s[Len(s)]) THEN TrimEnd(SubSeq(s, 1, Len(s) - 1)) ELSE s

\* String.prototype.trim
Trim(s) == TrimEnd(TrimStart(s))

DigitChars == {"0", "1", "2", "3", "4", "5", "6", "7", "8", "9"}

DigitVal(c) ==
  CASE c = "0" -> 0 [] c = "1" -> 1 [] c = "2" -> 2 [] c = "3" -> 3
    [] c = "4" -> 4 [] c = "5" -> 5 [] c = "6" -> 6 [] c = "7" -> 7
    [] c = "8" -> 8 [] c = "9" -> 9

\* the longest prefix of s made of decimal digits
RECURSIVE DigitPrefix(_)
DigitPrefix(s) ==
  IF s = <<>> \/ Head(s) \notin DigitChars THEN <<>>
  ELSE <<Head(s)>> \o DigitPrefix(Tail(s))

RECURSIVE DigitsValue(_)
DigitsValue(d) ==
  IF d = <<>> THEN 0
  ELSE 10 * DigitsValue(SubSeq(d, 1, Len(d) - 1)) + DigitVal(d[Len(d)])

\* parseInt of a string: leading white space, an optional sign, then the
\* longest run of decimal digits; NaN when there is none.  (The strings of
\* the model hold no "x", so the hexadecimal prefix never applies.)
ParseIntStr(s) ==
  LET t == TrimStart(s)
      neg == t # <<>> /\ Head(t) = "-"
      signed == t # <<>> /\ Head(t) \in {"-", "+"}
      body == IF signed THEN Tail(t) ELSE t
      d == DigitPrefix(body)
  IN IF d = <<>> THEN NaN
     ELSE Num(IF neg THEN 0 - DigitsValue(d) ELSE DigitsValue(d))

\* parseInt(v) of a JSON value: an integer number prints as its digits and
\* parses back to itself; undefined prints as "undefined" and gives NaN
ParseInt(v) ==
  CASE v.t = "number" -> Num(v.n)
    [] v.t = "string" -> ParseIntStr(v.s)
    [] OTHER -> NaN

\* parseFloat(v), on the values of the model: numbers are kept in tenths
\* (10 is 1.0); a string parses as its leading integer, in tenths
ParseFloat(v) ==
  CASE v.t = "number" -> Num(v.n)
    [] v.t = "string" ->
         (LET p == ParseIntStr(v.s) IN IF p.t = "NaN" THEN NaN ELSE Num(10 * p.n))
    [] OTHER -> NaN

\* x || d for a numeric x
OrDefault(x, d) == IF Truthy(x) THEN x.n ELSE d

\* Math.min
MathMin(a, b) == IF a < b THEN a ELSE b

\* ------------------------------------------------------------------------
\* Program constants of the gateway
\* ------------------------------------------------------------------------
DefaultDuration == 120000
MaxDuration == 240000
DefaultTopk == 50
\* 1.0 and 1.5, in tenths
DefaultTemperature == 10
DefaultCfgScale == 15
\* rateLimit({ windowMs: 60 * 1000, max: 10 })
RateMax == 10
\* requests the model lets through the limiter after the window is full
MaxOverLimit == 2

\* ------------------------------------------------------------------------
\* What the provider (RunPod) can answer to one fetch of the gateway
\* ------------------------------------------------------------------------
\* the fetch rejects: a transport error
ProvThrow == [k |-> "throw"]
\* a 2xx answer with a JSON body
ProvOk(data) == [k |-> "resp", ok |-> TRUE, status |-> 200, json |-> TRUE, data |-> data]
\* a non-2xx answer whose body is JSON
ProvErrJson(code, data) == [k |-> "resp", ok |-> FALSE, status |-> code, json |-> TRUE, data |-> data]
\* an answer whose body is not JSON: only its text can be read
ProvText(ok, code, text) == [k |-> "resp", ok |-> ok, status |-> code, json |-> FALSE, text |-> text]

\* response.text(): a JSON body reads as its serialisation
BodyText(prov) == IF prov.json THEN "raw-json" ELSE prov.text

\* the gateway's answer to its caller
Res(code, body) == [code |-> code, body |-> body]

\* ------------------------------------------------------------------------
\* POST /api/generate
\* ------------------------------------------------------------------------
\* `!v || !v.trim()`: "blank" when v is falsy or trims to the empty string,
\* "throws" when v is truthy and has no trim method, "ok" otherwise
BlankCheck(v) ==
  IF ~Truthy(v) THEN "blank"
  ELSE IF v.t # "string" THEN "throws"
  ELSE IF Trim(v.s) = <<>> THEN "blank"
  ELSE "ok"

\* the duration without its upper clamp
Duration_NoClamp(duration_ms) == OrDefault(ParseInt(duration_ms), DefaultDuration)

\* Math.min(parseInt(duration_ms) || 120000, 240000)
Duration(duration_ms) == MathMin(OrDefault(ParseInt(duration_ms), DefaultDuration), MaxDuration)

\* the envelope sent to the provider
Payload(body) ==
  [lyrics |-> Trim(body.lyrics.s),
   tags |-> Trim(body.tags.s),
   duration_ms |-> Duration(body.duration_ms),
   temperature |-> OrDefault(ParseFloat(body.temperature), DefaultTemperature),
   topk |-> OrDefault(ParseInt(body.topk), DefaultTopk),
   cfg_scale |-> OrDefault(ParseFloat(body.cfg_scale), DefaultCfgScale)]

\* the handler: its answer, the outbound calls it made (each with the
\* provider's answer to it), the lines it logged
GenerateHandler(body, prov) ==
  LET caught == [tag |-> "[generate] Error"]
      call == [path |-> "/run", input |-> Payload(body), answer |-> prov]
      submitting == [tag |-> "[generate] Submitting job", duration |-> Duration(body.duration_ms)]
  IN
  IF BlankCheck(body.lyrics) = "blank"
    THEN [res |-> Res(400, [error |-> "lyrics is required"]), out |-> <<>>, log |-> <<>>]
  ELSE IF BlankCheck(body.lyrics) = "throws"
    THEN [res |-> Res(500, [error |-> "Internal server error"]), out |-> <<>>, log |-> <<caught>>]
  ELSE IF BlankCheck(body.tags) = "blank"
    THEN [res |-> Res(400, [error |-> "tags is required"]), out |-> <<>>, log |-> <<>>]
  ELSE IF BlankCheck(body.tags) = "throws"
    THEN [res |-> Res(500, [error |-> "Internal server error"]), out |-> <<>>, log |-> <<caught>>]
  ELSE IF prov.k = "throw"
    THEN [res |-> Res(500, [error |-> "Internal server error"]),
          out |-> <<call>>, log |-> <<submitting, caught>>]
  ELSE IF ~prov.ok
    THEN [res |-> Res(502, [error |-> "Failed to submit job to RunPod"]),
          out |-> <<call>>,
          log |-> <<submitting,
                    [tag |-> "[generate] RunPod error", status |-> prov.status, text |-> BodyText(prov)]>>]
  ELSE IF ~prov.json
    THEN [res |-> Res(500, [error |-> "Internal server error"]),
          out |-> <<call>>, log |-> <<submitting, caught>>]
  ELSE [res |-> Res(200, [jobId |-> prov.data.id, status |-> prov.data.status]),
        out |-> <<call>>,
        log |-> <<submitting, [tag |-> "[generate] Job submitted", id |-> prov.data.id]>>]

\* ------------------------------------------------------------------------
\* GET /api/status/:jobId
\* ------------------------------------------------------------------------
\* no output object / no text: what a missing JSON field reads as.  A text
\* field that is missing and one that is "" are both "": the code only
\* tests these fields for truthiness and copies them.
NoOutput == [t |-> "undefined"]
NoText == ""

\* the result with the provider's output and error attached whatever the status
StatusResult_AlwaysAttach(data) ==
  [jobId |-> data.id,
   status |-> data.status,
   output |-> data.output,
   error |-> IF data.error # NoText THEN data.error ELSE "Job failed"]

\* result = {jobId, status}; output only when COMPLETED and present;
\* error only when FAILED
StatusResult(data) ==
  [jobId |-> data.id,
   status |-> data.status,
   output |-> IF data.status = "COMPLETED" /\ Truthy(data.output) THEN data.output ELSE NoOutput,
   error |-> IF data.status = "FAILED"
               THEN (IF data.error # NoText THEN data.error ELSE "Job failed")
               ELSE NoText]

\* the handler answering a failed fetch of the provider with a FAILED status
StatusHandler_FailedOnUpstreamError(jobId, prov) ==
  LET call == [path |-> "/status", id |-> jobId, answer |-> prov]
      failed == [error |-> "Failed to get job status", jobId |-> jobId, status |-> "FAILED"]
  IN
  IF prov.k = "throw" \/ ~prov.ok \/ ~prov.json
    THEN [res |-> Res(502, failed), out |-> <<call>>, log |-> <<>>]
  ELSE [res |-> Res(200, StatusResult(prov.data)), out |-> <<call>>, log |-> <<>>]

\* the handler: its answer, the outbound call it made, the lines it logged
StatusHandler(jobId, prov) ==
  LET caught == [tag |-> "[status] Error"]
      call == [path |-> "/status", id |-> jobId, answer |-> prov]
  IN
  IF prov.k = "throw"
    THEN [res |-> Res(500, [error |-> "Internal server error"]), out |-> <<call>>, log |-> <<caught>>]
  ELSE IF ~prov.ok
    THEN [res |-> Res(502, [error |-> "Failed to get job status"]),
          out |-> <<call>>,
          log |-> <<[tag |-> "[status] RunPod error", status |-> prov.status, text |-> BodyText(prov)]>>]
  ELSE IF ~prov.json
    THEN [res |-> Res(500, [error |-> "Internal server error"]), out |-> <<call>>, log |-> <<caught>>]
  ELSE [res |-> Res(200, StatusResult(prov.data)), out |-> <<call>>, log |-> <<>>]

\* ------------------------------------------------------------------------
\* POST /api/cancel/:jobId
\* ------------------------------------------------------------------------
\* no test of response.ok: whatever JSON the provider sent is relayed
CancelHandler(jobId, prov) ==
  LET caught == [tag |-> "[cancel] Error"]
      call == [path |-> "/cancel", id |-> jobId, answer |-> prov]
  IN
  IF prov.k = "throw"
    THEN [res |-> Res(500, [error |-> "Internal server error"]), out |-> <<call>>, log |-> <<caught>>]
  ELSE IF ~prov.json
    THEN [res |-> Res(500, [error |-> "Internal server error"]), out |-> <<call>>, log |-> <<caught>>]
  ELSE [res |-> Res(200, prov.data), out |-> <<call>>, log |-> <<>>]

\* ------------------------------------------------------------------------
\* Middleware: cors, then the rate limiter on /api/
\* ------------------------------------------------------------------------
NoOrigin == "none"
allowedOrigins == {"http://localhost:3000"}

\* an origin callback that lets every origin through
OriginAllowed_Any(origin) == origin = origin

\* origin callback: no Origin header, or a listed one
OriginAllowed(origin) == origin = NoOrigin \/ origin \in allowedOrigins

\* a limiter that lets one request more through
Limited_OneMore(hitsNow) == hitsNow > RateMax + 1

\* the limiter, after counting this request
Limited(hitsNow) == hitsNow > RateMax

\* ------------------------------------------------------------------------
\* State
\* ------------------------------------------------------------------------
VARIABLES
  \* the gateway: requests counted in the limiter's window, the last request,
  \* whether its route handler was entered, its answer, the outbound calls it
  \* made and the lines it logged
  hits, req, entered, res, out, srvlog,
  \* the React component: its state hooks and pollRef.current
  status, error, audioSrc, inferenceTime, loading, pollRef,
  \* the browser: live interval timers, fetches awaiting their answer, the
  \* number of object URLs created and not revoked
  timers, genInFlight, statusInFlight, objectURLs,
  \* the provider: its jobs and, per job, how far its answers to the status
  \* queries have followed IN_QUEUE, IN_PROGRESS, COMPLETED
  provider, answers

gatewayVars == <<hits, req, entered, res, out, srvlog>>
clientVars == <<status, error, audioSrc, inferenceTime, loading, pollRef,
                timers, genInFlight, statusInFlight, objectURLs,
                provider, answers>>
vars == <<hits, req, entered, res, out, srvlog,
          status, error, audioSrc, inferenceTime, loading, pollRef,
          timers, genInFlight, statusInFlight, objectURLs,
          provider, answers>>

\* JavaScript null and undefined in a state hook that otherwise holds text
JSNull == "null"
JSUndefined == "undefined"
\* no object URL; no timer
NoURL == 0
NoTimer == 0

JobIds == 1 .. MaxJobs

\* the answers of a scripted run, in order; answers[j] is the number of
\* answers given to job j while they follow the script, OffScript after
\* the first answer that does not
Script == <<"IN_QUEUE", "IN_PROGRESS", "COMPLETED">>
OffScript == Len(Script) + 1

\* one more answer, s
Answered(a, s) ==
  IF a # OffScript /\ a < Len(Script) /\ Script[a + 1] = s THEN a + 1 ELSE OffScript
NoJob == [status |-> "NONE", output |-> NoOutput, error |-> NoText]

Init ==
  /\ hits = 0
  /\ req = [route |-> "none"]
  /\ entered = FALSE
  /\ res = [code |-> 0]
  /\ out = <<>>
  /\ srvlog = <<>>
  /\ status = JSNull
  /\ error = JSNull
  /\ audioSrc = NoURL
  /\ inferenceTime = 0
  /\ loading = FALSE
  /\ pollRef = NoTimer
  /\ timers = {}
  /\ genInFlight = EmptyBag
  /\ statusInFlight = EmptyBag
  /\ objectURLs = 0
  /\ provider = [j \in JobIds |-> NoJob]
  /\ answers = [j \in JobIds |-> 0]

\* ------------------------------------------------------------------------
\* The gateway serving one request
\* ------------------------------------------------------------------------
Origins == {NoOrigin, "http://localhost:3000", "http://evil.example"}

LA == <<" ", "l", "a", " ">>
POP == <<"p", "o", "p">>
Nines == <<"9", "9", "9", "9", "9", "9", "9", "9", "9">>

BodyOf(l, t, d, k, f) ==
  [lyrics |-> l, tags |-> t, duration_ms |-> d, topk |-> k, temperature |-> f, cfg_scale |-> f]

TextValues(word) == {Undef, Str(<<>>), Str(<<" ", "\t">>), Str(word), Num(7)}
DurationValues ==
  {Undef, Num(999999999), Num(30000), Num(240000), Num(240001), Num(0), Num(0 - 5),
   Str(Nines), Str(<<"a", "b">>), Str(<<" ", "4", "2", "a">>)}
TopkValues == {Undef, Num(0), Num(20), Str(<<"k">>)}

\* the request bodies of the model
Bodies ==
  {BodyOf(l, t, Num(30000), Undef, Undef) : l \in TextValues(LA), t \in TextValues(POP)}
  \cup {BodyOf(Str(LA), Str(POP), d, Undef, Undef) : d \in DurationValues}
  \cup {BodyOf(Str(LA), Str(POP), Undef, k, f) : k \in TopkValues, f \in {Undef, Num(7)}}

ProviderCodes == {401, 500}
RunAnswers ==
  {ProvThrow, ProvOk([id |-> 1, status |-> "IN_QUEUE"]), ProvText(TRUE, 200, "<html>")}
  \cup {ProvText(FALSE, c, "upstream detail") : c \in ProviderCodes}
  \cup {ProvErrJson(c, [error |-> "upstream detail"]) : c \in ProviderCodes}

SuccessOutput(b64) ==
  [t |-> "object", status |-> "success", audio_base64 |-> b64, message |-> NoText,
   inference_time_sec |-> 12]
FailureOutput(msg) ==
  [t |-> "object", status |-> "error", audio_base64 |-> Undef, message |-> msg,
   inference_time_sec |-> 0]

ValidB64 == <<"A", "A", "A", "A">>
IllegalB64 == <<"A", "!", "A", "A">>
ShortB64 == <<"A", "A", "A", "A", "A">>

ProviderStatuses == {"IN_QUEUE", "IN_PROGRESS", "COMPLETED", "FAILED", "CANCELLED"}
GatewayOutputs == {NoOutput, SuccessOutput(Str(ValidB64)), FailureOutput("bad prompt")}
StatusAnswers ==
  {ProvThrow, ProvText(TRUE, 200, "<html>")}
  \cup {ProvText(FALSE, c, "upstream detail") : c \in ProviderCodes}
  \cup {ProvOk([id |-> 1, status |-> s, output |-> o, error |-> e]) :
          s \in ProviderStatuses, o \in GatewayOutputs, e \in {NoText, "out of memory"}}
CancelAnswers ==
  {ProvThrow, ProvOk([id |-> 1, status |-> "CANCELLED"])}
  \cup {ProvText(FALSE, c, "upstream detail") : c \in ProviderCodes}
  \cup {ProvErrJson(c, [error |-> "upstream detail"]) : c \in ProviderCodes}

\* cors, the limiter, then the route's handler
Serve(r, handled) ==
  /\ req' = r
  /\ IF ~OriginAllowed(r.origin)
       THEN /\ res' = Res(500, [html |-> "Error: Not allowed by CORS"])
            /\ entered' = FALSE
            /\ UNCHANGED hits
            /\ out' = <<>>
            /\ srvlog' = <<>>
       ELSE /\ hits' = hits + 1
            /\ IF Limited(hits + 1)
                 THEN /\ res' = Res(429, [error |-> "Too many requests, please try again later."])
                      /\ entered' = FALSE
                      /\ out' = <<>>
                      /\ srvlog' = <<>>
                 ELSE /\ res' = handled.res
                      /\ entered' = TRUE
                      /\ out' = handled.out
                      /\ srvlog' = handled.log
  /\ UNCHANGED clientVars

\* the requests of one window that the model follows
WithinWindow == hits < RateMax + MaxOverLimit

PostGenerate ==
  /\ WithinWindow
  /\ \E o \in Origins, body \in Bodies, prov \in RunAnswers :
       Serve([route |-> "generate", origin |-> o, body |-> body],
             GenerateHandler(body, prov))

GetStatus ==
  /\ WithinWindow
  /\ \E o \in Origins, prov \in StatusAnswers :
       Serve([route |-> "status", origin |-> o, jobId |-> 1],
             StatusHandler(1, prov))

PostCancel ==
  /\ WithinWindow
  /\ \E o \in Origins, prov \in CancelAnswers :
       Serve([route |-> "cancel", origin |-> o, jobId |-> 1],
             CancelHandler(1, prov))

\* the limiter's window ends
WindowReset ==
  /\ hits > 0
  /\ hits' = 0
  /\ UNCHANGED <<req, entered, res, out, srvlog>>
  /\ UNCHANGED clientVars

NextGateway == PostGenerate \/ GetStatus \/ PostCancel \/ WindowReset

SpecGateway == Init /\ [][NextGateway]_vars

\* ------------------------------------------------------------------------
\* The result materializer
\* ------------------------------------------------------------------------
B64Alphabet ==
  <<"A", "B", "C", "D", "E", "F", "G", "H", "I", "J", "K", "L", "M", "N", "O", "P",
    "Q", "R", "S", "T", "U", "V", "W", "X", "Y", "Z", "a", "b", "c", "d", "e", "f",
    "g", "h", "i", "j", "k", "l", "m", "n", "o", "p", "q", "r", "s", "t", "u", "v",
    "w", "x", "y", "z", "0", "1", "2", "3", "4", "5", "6", "7", "8", "9", "+", "/">>

IsB64Char(c) == \E i \in 1 .. 64 : B64Alphabet[i] = c
B64Val(c) == (CHOOSE i \in 1 .. 64 : B64Alphabet[i] = c) - 1

RECURSIVE StripSpace(_)
StripSpace(s) ==
  IF s = <<>> THEN <<>>
  ELSE IF IsSpace(Head(s)) THEN StripSpace(Tail(s))
  ELSE <<Head(s)>> \o StripSpace(Tail(s))

\* a length that is a multiple of four may end with one or two "="
StripPadding(s) ==
  IF Len(s) % 4 = 0 /\ Len(s) > 0 /\ s[Len(s)] = "="
    THEN (IF s[Len(s) - 1] = "=" THEN SubSeq(s, 1, Len(s) - 2) ELSE SubSeq(s, 1, Len(s) - 1))
    ELSE s

SixBits(v) ==
  <<(v \div 32) % 2, (v \div 16) % 2, (v \div 8) % 2, (v \div 4) % 2, (v \div 2) % 2, v % 2>>

RECURSIVE BitsOf(_)
BitsOf(s) == IF s = <<>> THEN <<>> ELSE SixBits(B64Val(Head(s))) \o BitsOf(Tail(s))

ByteAt(bits, i) ==
  LET b == SubSeq(bits, 8 * (i - 1) + 1, 8 * i)
  IN 128 * b[1] + 64 * b[2] + 32 * b[3] + 16 * b[4] + 8 * b[5] + 4 * b[6] + 2 * b[7] + b[8]

\* window.atob: the decoded bytes, or a throw on a character outside the
\* alphabet or a length of 1 modulo 4
Atob(base64) ==
  LET s == StripPadding(StripSpace(base64))
      bits == BitsOf(s)
  IN IF Len(s) % 4 = 1 \/ \E i \in 1 .. Len(s) : ~IsB64Char(s[i])
       THEN [throws |-> TRUE]
       ELSE [throws |-> FALSE, bytes |-> [i \in 1 .. (Len(bits) \div 8) |-> ByteAt(bits, i)]]

base64ToBlob(base64, mimeType) ==
  LET decoded == Atob(base64)
  IN IF decoded.throws THEN [throws |-> TRUE]
     ELSE [throws |-> FALSE, blob |-> [bytes |-> decoded.bytes, type |-> mimeType]]

\* ------------------------------------------------------------------------
\* The provider's jobs, as the client's polls see them
\* ------------------------------------------------------------------------
TerminalOutcomes ==
  {[status |-> "COMPLETED", output |-> o, error |-> NoText] :
     o \in {NoOutput, SuccessOutput(Str(ValidB64)), SuccessOutput(Str(IllegalB64)),
            FailureOutput("bad prompt"), FailureOutput(NoText)}}
  \cup {[status |-> "FAILED", output |-> NoOutput, error |-> e] : e \in {NoText, "out of memory"}}

Queued == [status |-> "IN_QUEUE", output |-> NoOutput, error |-> NoText]
Running == [status |-> "IN_PROGRESS", output |-> NoOutput, error |-> NoText]

\* a job moves from the queue to the worker, then to one terminal outcome,
\* which it keeps: the states job record p can be in at the next query
Later(p) ==
  CASE p.status = "IN_QUEUE" -> {Queued, Running} \cup TerminalOutcomes
    [] p.status = "IN_PROGRESS" -> {Running} \cup TerminalOutcomes
    [] OTHER -> {p}

\* the provider's answer to a status query of job j whose record is p
StatusData(j, p) == [id |-> j, status |-> p.status, output |-> p.output, error |-> p.error]

\* the provider keeps a job only while a status query for it can still
\* come: while its submission is being answered, an interval timer polls it
\* or a status fetch for it is in flight.  The identifier of a job it has
\* dropped is free again: nothing in the client holds it any more.
Watched(j, T, G, S) ==
  \/ j \in T
  \/ \E g \in BagToSet(G) : "code" \in DOMAIN g /\ g.code = 200 /\ g.body.jobId = j
  \/ \E r \in BagToSet(S) : r.job = j

Kept(P, T, G, S) == [j \in JobIds |-> IF Watched(j, T, G, S) THEN P[j] ELSE NoJob]

KeptAnswers(A, T, G, S) ==
  [j \in JobIds |-> IF Watched(j, T, G, S) THEN A[j] ELSE 0]

\* ------------------------------------------------------------------------
\* The React component
\* ------------------------------------------------------------------------
\* a fetch of the browser that rejects
FetchRejected == [rejected |-> TRUE]
Rejected(r) == "rejected" \in DOMAIN r

\* data.f of a parsed JSON body
Get(data, f, missing) == IF f \in DOMAIN data THEN data[f] ELSE missing

\* x || d on texts
TextOr(x, d) == IF x # NoText THEN x ELSE d

\* stopPolling: clearInterval(pollRef.current), pollRef.current = null
StoppedTimers == IF pollRef # NoTimer THEN timers \ {pollRef} ELSE timers

\* the ways one fetch of the browser can end: it rejects, the gateway's own
\* fetch rejects, the provider answers the gateway non-2xx, or the provider
\* answers
FetchOutcomes == {"rejected", "threw", "upstream", "ok"}
\* the same for the submission: each of its failures ends in the one catch
\* of handleGenerate, with its own message
SubmitOutcomes == {"upstream", "ok"}
\* the provider's answer to the gateway in a fetch that ends in a failure
FailedAnswer(answered) ==
  IF answered = "threw" THEN ProvThrow ELSE ProvText(FALSE, 500, "upstream detail")

\* the interval callback of job j up to its await: one status fetch is
\* issued, which ends as `answered` says; the gateway resolves it against
\* the provider, whose job has moved on since the last query or not, or fails
TickAnswered(j, answered) ==
  /\ j \in timers
  /\ objectURLs < MaxURLs
  /\ BagCardinality(genInFlight) + BagCardinality(statusInFlight) < MaxInFlight
  /\ \E p \in Later(provider[j]) :
       LET prov == IF answered = "ok" THEN ProvOk(StatusData(j, p)) ELSE FailedAnswer(answered)
           r == IF answered = "rejected" THEN FetchRejected ELSE StatusHandler(j, prov).res
       IN /\ answered # "ok" => p = provider[j]
          /\ statusInFlight' = statusInFlight (+) SetToBag({[job |-> j, res |-> r]})
          /\ provider' = [provider EXCEPT ![j] = p]
          /\ answers' = IF answered = "ok"
                          THEN [answers EXCEPT ![j] = Answered(answers[j], p.status)]
                          ELSE answers
  /\ UNCHANGED gatewayVars
  /\ UNCHANGED <<status, error, audioSrc, inferenceTime, loading, pollRef,
                 timers, genInFlight, objectURLs>>

Tick(j) == \E answered \in FetchOutcomes : TickAnswered(j, answered)

\* the interval callback after its await, on the answer r of one fetch
PollResponse(r) ==
  /\ BagIn(r, statusInFlight)
  /\ statusInFlight' = statusInFlight (-) SetToBag({r})
  /\ IF Rejected(r.res)
       THEN \* catch: console.error only
            UNCHANGED <<status, error, audioSrc, inferenceTime, loading, pollRef,
                        timers, objectURLs>>
       ELSE LET data == r.res.body
                st == Get(data, "status", JSUndefined)
                output == Get(data, "output", NoOutput)
                completed == st = "COMPLETED" /\ Truthy(output)
                failed == st = "FAILED"
                success == completed /\ output.status = "success" /\ Truthy(output.audio_base64)
                made == IF success THEN base64ToBlob(output.audio_base64.s, "audio/mpeg")
                        ELSE [throws |-> TRUE]
                url == objectURLs + 1
            IN /\ status' = st
               /\ pollRef' = IF completed \/ failed THEN NoTimer ELSE pollRef
               /\ timers' = IF completed \/ failed THEN StoppedTimers ELSE timers
               /\ loading' = IF completed \/ failed THEN FALSE ELSE loading
               /\ IF success /\ ~made.throws
                    THEN /\ objectURLs' = objectURLs + 1
                         /\ audioSrc' = url
                         /\ inferenceTime' = output.inference_time_sec
                    ELSE UNCHANGED <<objectURLs, audioSrc, inferenceTime>>
               /\ error' = IF completed /\ ~success THEN TextOr(output.message, "Generation failed")
                           ELSE IF failed THEN TextOr(Get(data, "error", NoText), "Job failed")
                           ELSE error
  /\ provider' = Kept(provider, timers', genInFlight, statusInFlight')
  /\ answers' = KeptAnswers(answers, timers', genInFlight, statusInFlight')
  /\ UNCHANGED gatewayVars
  /\ UNCHANGED genInFlight

\* the texts a form field can hold and the durations of the select
FormTexts == {<<" ">>, LA}
DURATION_OPTIONS == {30000, 60000, 120000, 180000, 240000}

\* the provider's next free job id, 0 when the model has none left
NewJob ==
  IF \E j \in JobIds : provider[j].status = "NONE"
    THEN CHOOSE j \in JobIds : provider[j].status = "NONE" /\ \A i \in 1 .. j - 1 : provider[i].status # "NONE"
    ELSE 0

\* handleGenerate up to its await, from a click on the enabled button
handleGenerate(lyrics, tags, durationMs) ==
  /\ ~(loading \/ Trim(lyrics) = <<>> \/ Trim(tags) = <<>>)
  /\ BagCardinality(genInFlight) + BagCardinality(statusInFlight) < MaxInFlight
  /\ loading' = TRUE
  /\ error' = JSNull
  /\ audioSrc' = NoURL
  /\ status' = "SUBMITTING"
  /\ inferenceTime' = 0
  /\ pollRef' = NoTimer
  /\ timers' = StoppedTimers
  /\ \E answered \in SubmitOutcomes :
       LET body == BodyOf(Str(Trim(lyrics)), Str(Trim(tags)), Num(durationMs), Undef, Undef)
           prov == IF answered = "ok" THEN ProvOk([id |-> NewJob, status |-> "IN_QUEUE"])
                   ELSE FailedAnswer(answered)
           r == IF answered = "rejected" THEN FetchRejected ELSE GenerateHandler(body, prov).res
       IN /\ answered = "ok" => NewJob # 0
          /\ genInFlight' = genInFlight (+) SetToBag({r})
          /\ provider' = Kept(IF answered = "ok"
                                THEN [provider EXCEPT ![NewJob] = Queued]
                                ELSE provider,
                              timers', genInFlight', statusInFlight)
  /\ answers' = KeptAnswers(answers, timers', genInFlight', statusInFlight)
  /\ UNCHANGED gatewayVars
  /\ UNCHANGED <<statusInFlight, objectURLs>>

\* handleGenerate after its await, on the answer g of its fetch
GenerateResponse(g) ==
  /\ BagIn(g, genInFlight)
  /\ genInFlight' = genInFlight (-) SetToBag({g})
  /\ IF Rejected(g) \/ g.code # 200
       THEN \* catch: setError(err.message), setLoading(false), setStatus(null)
            /\ error' = IF Rejected(g) THEN "Failed to fetch"
                        ELSE TextOr(Get(g.body, "error", NoText), "Request failed")
            /\ loading' = FALSE
            /\ status' = JSNull
            /\ UNCHANGED <<pollRef, timers>>
       ELSE \* setStatus(data.status || "IN_QUEUE"); pollStatus(data.jobId)
            /\ status' = TextOr(g.body.status, "IN_QUEUE")
            /\ Cardinality(timers) < MaxTimers
            /\ pollRef' = g.body.jobId
            /\ timers' = timers \cup {g.body.jobId}
            /\ UNCHANGED <<error, loading>>
  /\ UNCHANGED gatewayVars
  /\ UNCHANGED <<audioSrc, inferenceTime, statusInFlight, objectURLs, provider, answers>>

Next ==
  \/ \E lyrics \in FormTexts, tags \in FormTexts, d \in DURATION_OPTIONS : handleGenerate(lyrics, tags, d)
  \/ \E g \in BagToSet(genInFlight) : GenerateResponse(g)
  \/ \E j \in JobIds : Tick(j)
  \/ \E r \in BagToSet(statusInFlight) : PollResponse(r)

Spec == Init /\ [][Next]_vars

\* ------------------------------------------------------------------------
\* One session at a time, with the scheduling of the browser
\* ------------------------------------------------------------------------
\* no job is left from an earlier generation: its timer is cleared and none
\* of its fetches is outstanding
NoJobLeft == \A j \in JobIds : provider[j] = NoJob

\* the user clicks Generate only when the earlier generation has ended
NextSession ==
  \/ \E lyrics \in FormTexts, tags \in FormTexts, d \in DURATION_OPTIONS :
       NoJobLeft /\ handleGenerate(lyrics, tags, d)
  \/ \E g \in BagToSet(genInFlight) : GenerateResponse(g)
  \/ \E j \in JobIds : Tick(j)
  \/ \E r \in BagToSet(statusInFlight) : PollResponse(r)

\* every answer a status fetch of the model can receive
StatusResponsesOf(j) ==
  {FetchRejected}
    \cup {StatusHandler(j, FailedAnswer(a)).res : a \in {"threw", "upstream"}}
    \cup {StatusHandler(j, ProvOk(StatusData(j, p))).res :
            p \in {Queued, Running} \cup TerminalOutcomes}
StatusResponses ==
  UNION {{[job |-> j, res |-> x] : x \in StatusResponsesOf(j)} : j \in JobIds}

\* setInterval keeps firing while its timer is live and status queries keep
\* succeeding from time to time (strong fairness of the answered tick);
\* every fetch issued is answered and its continuation runs (weak fairness
\* of each answer)
SessionFairness ==
  /\ \A j \in JobIds : SF_vars(TickAnswered(j, "ok"))
  /\ \A r \in StatusResponses : WF_vars(PollResponse(r))
  /\ WF_vars(\E g \in BagToSet(genInFlight) : GenerateResponse(g))

SpecSession == Init /\ [][NextSession]_vars /\ SessionFairness

\* ------------------------------------------------------------------------
\* Properties of the gateway (checked under SpecGateway)
\* ------------------------------------------------------------------------
\* a field that is missing, empty or only white space
IsBlankField(v) == v = Undef \/ (v.t = "string" /\ Trim(v.s) = <<>>)

Generated == req.route = "generate" /\ entered

\* C1: every generate request whose lyrics or tags is missing, empty or
\* white space only is answered 400, with 'lyrics is required' when lyrics
\* is blank and 'tags is required' otherwise, and makes no outbound call.
C1_BlankFieldRejected ==
  (Generated /\ (IsBlankField(req.body.lyrics) \/ IsBlankField(req.body.tags)))
    => /\ res = Res(400, [error |-> IF IsBlankField(req.body.lyrics)
                                      THEN "lyrics is required" ELSE "tags is required"])
       /\ out = <<>>

\* C2: the duration_ms forwarded to the provider never exceeds 240000, and
\* a request of 999999999 (as a number or as its digits) is forwarded as
\* exactly 240000.
C2_DurationNeverAboveMax ==
  (Generated /\ out # <<>>)
    => /\ out[1].input.duration_ms <= 240000
       /\ req.body.duration_ms \in {Num(999999999), Str(Nines)}
            => out[1].input.duration_ms = 240000

C2_Witness ==
  /\ Generated /\ out # <<>>
  /\ req.body.duration_ms = Num(999999999)
  /\ out[1].input.duration_ms = 240000

\* C9: a 200 answer of the status route carries an output only if its
\* status is COMPLETED and an error only if its status is FAILED.
C9_OutputOnlyCompletedErrorOnlyFailed ==
  (req.route = "status" /\ entered /\ res.code = 200)
    => /\ res.body.output # NoOutput => res.body.status = "COMPLETED"
       /\ res.body.error # NoText => res.body.status = "FAILED"

\* the provider attached an output and an error to a job still in progress
\* and the gateway's 200 answer carries neither
C9_Witness ==
  /\ req.route = "status" /\ entered /\ res.code = 200
  /\ out[1].answer.data.status = "IN_PROGRESS"
  /\ out[1].answer.data.output # NoOutput
  /\ out[1].answer.data.error # NoText
  /\ res.body.output = NoOutput
  /\ res.body.error = NoText

\* the provider answered the outbound call with a non-success response
UpstreamFailed == entered /\ out # <<>> /\ out[1].answer.k = "resp" /\ ~out[1].answer.ok

GenericErrors ==
  {[error |-> "Failed to submit job to RunPod"], [error |-> "Failed to get job status"],
   [error |-> "Internal server error"]}

\* the provider's status code and raw body are in the log
DetailLogged ==
  \E i \in 1 .. Len(srvlog) :
    /\ "status" \in DOMAIN srvlog[i]
    /\ srvlog[i].status = out[1].answer.status
    /\ srvlog[i].text = BodyText(out[1].answer)

\* C10: on submission, status query and cancel alike, a non-success answer
\* of the provider reaches the caller as a generic short error, and the
\* provider's status code and raw body are only logged.
C10_UpstreamDetailNeverReturned ==
  UpstreamFailed => (res.code \in {500, 502} /\ res.body \in GenericErrors /\ DetailLogged)

\* the last request carried an Origin header that is not in the allow-list
ForeignOrigin == req.route # "none" /\ req.origin # NoOrigin /\ req.origin \notin allowedOrigins

\* C11: a request whose Origin is not in the allow-list never enters the
\* generate, status or cancel handler and makes no outbound call.
C11_ForeignOriginNeverHandled ==
  ForeignOrigin => (~entered /\ out = <<>> /\ srvlog = <<>>)

\* a submission from a foreign origin was turned away by cors
C11_Witness ==
  /\ req.route = "generate"
  /\ req.origin = "http://evil.example"
  /\ BlankCheck(req.body.lyrics) = "ok" /\ BlankCheck(req.body.tags) = "ok"
  /\ ~entered
  /\ res.code = 500

\* the last request was a submission counted by the limiter when the window
\* already held RateMax requests
OverLimitSubmission ==
  req.route = "generate" /\ ~ForeignOrigin /\ hits > RateMax

\* C12: once the window holds 10 requests, every further submission in
\* the window is answered 429 with the rate-limit error in the same step,
\* without entering the handler and without an outbound call.
C12_OverLimitAnsweredAtOnce ==
  OverLimitSubmission
    => /\ res = Res(429, [error |-> "Too many requests, please try again later."])
       /\ ~entered
       /\ out = <<>>

\* the twelfth request of a window, a valid submission, was turned away
C12_Witness ==
  /\ OverLimitSubmission
  /\ hits = RateMax + 2
  /\ BlankCheck(req.body.lyrics) = "ok" /\ BlankCheck(req.body.tags) = "ok"
  /\ res.code = 429

\* v is a number, or a text made of decimal digits only; its value
IsNumeric(v) ==
  \/ v.t = "number"
  \/ v.t = "string" /\ v.s # <<>> /\ \A i \in 1 .. Len(v.s) : v.s[i] \in DigitChars
NumericValue(v) == IF v.t = "number" THEN v.n ELSE DigitsValue(v.s)

\* v is missing, or a text without any decimal digit
NonNumeric(v) ==
  \/ v = Undef
  \/ v.t = "string" /\ \A i \in 1 .. Len(v.s) : v.s[i] \notin DigitChars

\* n clamped to [0, 240000]
ClampedDuration(n) == IF n < 0 THEN 0 ELSE IF n > 240000 THEN 240000 ELSE n

\* C18: for every accepted request, the forwarded duration_ms is the
\* supplied number clamped to [0, 240000] (0 and negative numbers included)
\* and 120000 when the field is missing or non-numeric; the forwarded topk
\* is the supplied number and 50 when the field is missing or non-numeric.
C18_NumericFieldsForwarded ==
  (Generated /\ out # <<>>)
    => /\ IsNumeric(req.body.duration_ms)
            => out[1].input.duration_ms = ClampedDuration(NumericValue(req.body.duration_ms))
       /\ NonNumeric(req.body.duration_ms) => out[1].input.duration_ms = 120000
       /\ IsNumeric(req.body.topk) => out[1].input.topk = NumericValue(req.body.topk)
       /\ NonNumeric(req.body.topk) => out[1].input.topk = 50

\* ------------------------------------------------------------------------
\* Properties of the poller (checked under Spec)
\* ------------------------------------------------------------------------
\* this step is the interval callback resuming on the answer r
Delivered(r) == BagIn(r, statusInFlight) /\ statusInFlight' = statusInFlight (-) SetToBag({r})

\* r carries a status result of the gateway, and its fields
Resolved(r) == ~Rejected(r.res) /\ r.res.code = 200
ObservedStatus(r) == r.res.body.status
ObservedOutput(r) == r.res.body.output

\* the provider answered the queries of job j with IN_QUEUE, IN_PROGRESS and
\* COMPLETED, its output a success with decodable audio
ScriptedSuccess(j) ==
  /\ answers[j] = Len(Script)
  /\ provider[j].output = SuccessOutput(Str(ValidB64))

\* C3: when the provider answers the queries of a job with IN_QUEUE, then
\* IN_PROGRESS, then COMPLETED with a success output, the poller that
\* receives the COMPLETED answer creates one object URL and the job's timer
\* is no longer live, and no other answer of the run creates an object URL.
C3_ScriptedRunStopsWithOneResult ==
  [][\A r \in BagToSet(statusInFlight) :
       (Delivered(r) /\ ScriptedSuccess(r.job))
         => IF Resolved(r) /\ ObservedStatus(r) = "COMPLETED"
              THEN objectURLs' = objectURLs + 1 /\ r.job \notin timers'
              ELSE objectURLs' = objectURLs]_vars

\* C4: whenever the poller observes COMPLETED or FAILED for its job, with or
\* without an output, the job's timer is no longer live afterwards (so no
\* further status fetch is issued for the job).
C4_TerminalStatusCancelsTimer ==
  [][\A r \in BagToSet(statusInFlight) :
       (Delivered(r) /\ Resolved(r) /\ ObservedStatus(r) \in {"COMPLETED", "FAILED"})
         => r.job \notin timers']_vars

\* C5: when the poller observes FAILED, the job's timer is no longer live,
\* the error shown is the provider's error message, or 'Job failed' when the
\* provider gave none, and no result handle is produced.
C5_FailedStopsAndShowsProviderError ==
  [][\A r \in BagToSet(statusInFlight) :
       (Delivered(r) /\ Resolved(r) /\ ObservedStatus(r) = "FAILED")
         => /\ r.job \notin timers'
            /\ error' = TextOr(provider[r.job].error, "Job failed")
            /\ objectURLs' = objectURLs
            /\ audioSrc' = audioSrc]_vars

\* C6: when the poller observes COMPLETED with an output whose status is not
\* 'success', the job's timer is no longer live, the error is output.message
\* or the fallback 'Generation failed', and no result handle is created.
C6_CompletedFailureShownAsError ==
  [][\A r \in BagToSet(statusInFlight) :
       (Delivered(r) /\ Resolved(r) /\ ObservedStatus(r) = "COMPLETED"
          /\ Truthy(ObservedOutput(r)) /\ ObservedOutput(r).status # "success")
         => /\ r.job \notin timers'
            /\ error' = TextOr(provider[r.job].output.message, "Generation failed")
            /\ error' # JSNull
            /\ objectURLs' = objectURLs
            /\ audioSrc' = audioSrc]_vars

\* the audio of a success output does not decode
UndecodableSuccess(r) ==
  /\ Resolved(r) /\ ObservedStatus(r) = "COMPLETED" /\ Truthy(ObservedOutput(r))
  /\ ObservedOutput(r).status = "success"
  /\ Truthy(ObservedOutput(r).audio_base64)
  /\ Atob(ObservedOutput(r).audio_base64.s).throws

\* C7: when the success payload of a COMPLETED job is not valid base64, no
\* result handle is produced and the error state is set.
C7_UndecodableAudioSurfaced ==
  [][\A r \in BagToSet(statusInFlight) :
       (Delivered(r) /\ UndecodableSuccess(r))
         => /\ objectURLs' = objectURLs
            /\ audioSrc' = audioSrc
            /\ error' # JSNull]_vars

\* r is a resolver-level failure: the fetch rejected, or the gateway
\* answered it with a non-success status
ResolverFailure(r) == Rejected(r.res) \/ r.res.code # 200

\* C8: a resolver-level failure carries no FAILED status, and the poller that
\* receives it leaves its timer, pollRef, the error and the loading flag as
\* they were: the timer fires again.
C8_ResolverFailureIsNotFailed ==
  /\ [](\A r \in BagToSet(statusInFlight) :
          (ResolverFailure(r) /\ ~Rejected(r.res))
            => Get(r.res.body, "status", JSUndefined) # "FAILED")
  /\ [][\A r \in BagToSet(statusInFlight) :
          (Delivered(r) /\ ResolverFailure(r))
            => /\ timers' = timers
               /\ pollRef' = pollRef
               /\ error' = error
               /\ loading' = loading]_vars

\* a poller that received a gateway error is still polling: the status shown
\* is undefined, the job still loading and its timer live
C8_Witness ==
  /\ status = JSUndefined
  /\ loading
  /\ pollRef # NoTimer
  /\ pollRef \in timers

\* status fetches of job j issued and not yet answered
Outstanding(j) ==
  LET S == {r \in BagToSet(statusInFlight) : r.job = j}
  IN IF S = {} THEN 0 ELSE BagCardinality([r \in S |-> statusInFlight[r]])

\* C13: the poller of a job has at most one status fetch outstanding at
\* any time, however long the answers take.
C13_OneOutstandingFetch ==
  \A j \in JobIds : Outstanding(j) <= 1

\* C14: when the answer of a status fetch arrives after the poller of its
\* job has stopped, the displayed status, the error, the loading flag and
\* the result handle stay as they were.
C14_LateAnswerDiscarded ==
  [][\A r \in BagToSet(statusInFlight) :
       (Delivered(r) /\ r.job \notin timers)
         => UNCHANGED <<status, error, loading, audioSrc, objectURLs>>]_vars

\* job j is the only job the provider keeps and no submission is in flight:
\* the page is in the session of job j alone
OnlySession(j) ==
  /\ genInFlight = EmptyBag
  /\ \A i \in JobIds \ {j} : provider[i] = NoJob

\* C15: within the session of one job, once the displayed status is
\* COMPLETED or FAILED, no answer of a status fetch changes it.
C15_TerminalStatusIsFinal ==
  [][\A r \in BagToSet(statusInFlight) :
       (Delivered(r) /\ OnlySession(r.job) /\ status \in {"COMPLETED", "FAILED"})
         => status' = status]_vars

\* the values of JobStatus, and the empty status of a page without a job
JobStatuses == {"SUBMITTING", "IN_QUEUE", "IN_PROGRESS", "COMPLETED", "FAILED"}

\* C16: in every reachable state the displayed status is SUBMITTING,
\* IN_QUEUE, IN_PROGRESS, COMPLETED or FAILED, or empty, whatever the status
\* route answered.
C16_StatusIsAJobStatus ==
  status \in JobStatuses \cup {JSNull}

\* this step is handleGenerate issuing a submission
Submitted == BagCardinality(genInFlight') = BagCardinality(genInFlight) + 1

\* C17: when a generation is started, no object URL created for an earlier
\* job is live any more once the submission is issued.
C17_HandlesReleasedOnSubmit ==
  [][Submitted => objectURLs' = 0]_vars

\* C19: when the provider's job is COMPLETED or FAILED while its timer is
\* live, and status queries keep succeeding, the poller eventually stops:
\* the timer is cancelled and the loading flag cleared.
C19_TerminalJobStopsPoller ==
  \A j \in JobIds :
    (provider[j].status \in {"COMPLETED", "FAILED"} /\ j \in timers)
      ~> (j \notin timers /\ ~loading)

\* C20: while the poller of job B is live and held by pollRef, the answer
\* of a status fetch of another job leaves B's timer live and the displayed
\* status, the error and the loading flag as they were.
C20_OtherJobsAnswerLeavesPoller ==
  [][\A r \in BagToSet(statusInFlight) :
       (Delivered(r) /\ pollRef # NoTimer /\ pollRef \in timers /\ r.job # pollRef)
         => /\ pollRef \in timers'
            /\ UNCHANGED <<status, error, loading>>]_vars

\* C21: in every reachable state at most one polling timer is live, and a
\* live timer is the one pollRef holds, so that stopPolling can cancel it.
C21_OneTimerHeldByPollRef ==
  /\ Cardinality(timers) <= 1
  /\ \A t \in timers : pollRef = t

====
